---- MODULE Spec2Model ----
(***************************************************************************)
(* Model of MultimodalLiveClient (src/src/lib/multimodal-live-client.ts):  *)
(* the WebSocket protocol client and its reconnection logic.               *)
(*                                                                         *)
(* Every JavaScript task (a public method called by the caller, a          *)
(* transport event listener, a timer callback) and every promise reaction  *)
(* (the then/catch attached by attemptReconnect) is one action.  Promise   *)
(* reactions are microtasks: while the microtask queue is not empty no     *)
(* other task runs.                                                        *)
(***************************************************************************)
EXTENDS Integers, Sequences, FiniteSets, TLC

\* ------------------------------------------------------------------ bounds
\* sockets the client may create in one behaviour of Spec
MaxSockets == 3
\* sockets the client may create in one behaviour of SpecRetry / SpecRecover
MaxSessionSockets == 7
\* number of distinct Connection Configurations the caller chooses from
NumConfigs == 2
\* sockets the client may create in one behaviour of SpecSend
MaxSendSockets == 2
\* frames the caller may send in one behaviour of SpecSend
MaxFrames == 1
\* parts of the modelTurn of an inbound frame
MaxParts == 2
\* inbound payloads being decoded at one time in SpecOrder
MaxPending == 2
\* words a close reason is made of in SpecReason
MaxReasonWords == 3
\* sockets created in SpecHook
MaxHookSockets == 3
\* transcribers created by the AssemblyAIClient
MaxTranscribers == 2
\* connect calls made by the AssemblyAIClient's caller
MaxConnectCalls == 2

\* ------------------------------------------------------- program constants
maxReconnectAttempts == 5
reconnectDelay == 1000
maxDelay == 30000
\* AssemblyAIClient.maxRetries
maxRetries == 3

VARIABLES
  ws,                  \* this.ws: 0 (null) or the id of a socket
  config,              \* this.config: 0 (null) or a configuration
  reconnecting,        \* this.reconnecting
  reconnectAttempt,    \* this.reconnectAttempt
  reconnectTimeoutId,  \* this.reconnectTimeoutId: 0 (null) or a timer id
  sockets,             \* every WebSocket created so far, by id
  timers,              \* pending window.setTimeout callbacks
  nextTimer,           \* next id returned by window.setTimeout
  microtasks,          \* queued promise reactions of attemptReconnect
  out,                 \* events emitted by the task that ran last
  step,                \* which task ran last, and its return value
  retryNo,             \* history: ordinal of the last retry scheduling in its sequence
  closeCount,          \* history: `close` events since the caller's last connect (max 2)
  established,         \* history: a socket opened since the caller's last connect
  overlap,             \* history: the caller's last connect was made over a live session
  cancelled,           \* history: caller disconnect() hit the session's reconnection sequence, no connect since
  fresh,               \* history: first socket of a caller connect made right after disconnect(), else 0
  frame,               \* the inbound frame handled by the last receive, NoFrame before
  decoding,            \* inbound payloads whose blobToJSON has not completed, in arrival order
  reason,              \* the reason of the last close event and the reason its log entry shows
  requested,           \* history: the config of the caller's last connect, 0 before
  hook,                \* useLiveAPI's state: the `connected` and `reconnecting` flags
  assembly             \* the AssemblyAIClient, its transcribers, timers and token requests

vars == <<ws, config, reconnecting, reconnectAttempt, reconnectTimeoutId,
          sockets, timers, nextTimer, microtasks, out, step,
          retryNo, closeCount, established, overlap, cancelled, fresh, frame,
          decoding, reason, requested, hook, assembly>>

Configs == 1..NumConfigs

Min(a, b) == IF a < b THEN a ELSE b

\* The client and its environment as one record, so that a method calling
\* another method is function composition.
Cur ==
  [ws |-> ws, config |-> config, reconnecting |-> reconnecting,
   reconnectAttempt |-> reconnectAttempt,
   reconnectTimeoutId |-> reconnectTimeoutId,
   sockets |-> sockets, timers |-> timers, nextTimer |-> nextTimer,
   microtasks |-> microtasks, out |-> <<>>, retryNo |-> retryNo,
   threw |-> FALSE]

\* WebSocket.readyState
readyState(m, s) ==
  CASE m.sockets[s].phase = "connecting" -> "CONNECTING"
    [] m.sockets[s].phase = "open"       -> "OPEN"
    [] m.sockets[s].phase = "closing"    -> "CLOSING"
    [] OTHER                             -> "CLOSED"

\* WebSocket.close(): an open socket starts its closing handshake, the close
\* event follows later; on a closing or closed socket it does nothing.
wsClose(m, s) ==
  IF m.sockets[s].phase = "open"
  THEN [m EXCEPT !.sockets[s].phase = "closing"]
  ELSE m

emit(m, e) == [m EXCEPT !.out = Append(@, e)]

\* log(type, message): emits `log`, and `client.reconnect` for that type
log(m, type, message) ==
  LET l  == [ev |-> "log", type |-> type, message |-> message]
      m1 == emit(m, l)
  IN IF type = "client.reconnect"
     THEN emit(m1, [ev |-> "client.reconnect", type |-> type, message |-> message])
     ELSE m1

\* delay computed by attemptReconnect from the incremented counter
BackoffDelayDoubled(attempt) == Min(maxDelay, reconnectDelay * 2^attempt)
BackoffDelay(attempt) == Min(maxDelay, reconnectDelay * 2^(attempt - 1))

\* disconnect(ws?) -- w = 0 is the call without argument
disconnectCloses(m, w) == (w = 0 \/ m.ws = w) /\ m.ws # 0

\* the value disconnect returns
disconnectReturnsOnCancel(m, w) == disconnectCloses(m, w) \/ m.reconnectTimeoutId # 0
disconnectReturn(m, w) == IF disconnectCloses(m, w) THEN TRUE ELSE FALSE

disconnectClearsConfig(m, w) ==
  LET m1 == [m EXCEPT !.timers = {t \in @ : t.id # m.reconnectTimeoutId},
                      !.reconnectTimeoutId = 0,
                      !.reconnecting = FALSE,
                      !.reconnectAttempt = 0,
                      !.config = 0]
  IN IF disconnectCloses(m1, w)
     THEN log([wsClose(m1, m1.ws) EXCEPT !.ws = 0], "client.close", "Disconnected")
     ELSE m1

disconnect(m, w) ==
  LET m1 == [m EXCEPT !.timers = {t \in @ : t.id # m.reconnectTimeoutId},
                      !.reconnectTimeoutId = 0,
                      !.reconnecting = FALSE,
                      !.reconnectAttempt = 0]
  IN IF disconnectCloses(m1, w)
     THEN log([wsClose(m1, m1.ws) EXCEPT !.ws = 0], "client.close", "Disconnected")
     ELSE m1

\* connect(config) up to the return of the promise: stores the config and
\* creates the socket.  origin/oldWs/try describe the promise's reactions:
\* "caller" has none in the client, "reconnect" has the then/catch of
\* attemptReconnect, whose closure holds oldWs.
connect(m, c, origin, oldWs, try) ==
  [m EXCEPT !.config = c,
            !.sockets = Append(@, [phase |-> "connecting", origin |-> origin,
                                   oldWs |-> oldWs, try |-> try, setup |-> 0,
                                   sent |-> <<>>, settled |-> "pending"])]

\* attemptReconnect(oldWs), up to and including window.setTimeout.
\* k is the ordinal of this scheduling within its sequence (history only).
attemptReconnect(m, oldWs, k) ==
  LET n     == m.reconnectAttempt + 1
      delay == BackoffDelay(n)
      m1    == log([m EXCEPT !.reconnecting = TRUE, !.reconnectAttempt = n],
                   "client.reconnect", "Attempting to reconnect")
      m2    == IF oldWs # 0 /\ readyState(m1, oldWs) # "CLOSED"
               THEN wsClose(m1, oldWs) ELSE m1
  IN [m2 EXCEPT !.ws = 0,
                !.reconnectTimeoutId = m.nextTimer,
                !.timers = @ \cup {[id |-> m.nextTimer, oldWs |-> oldWs,
                                    delay |-> delay, attempt |-> n, k |-> k]},
                !.nextTimer = @ + 1,
                !.retryNo = k]

\* the callback passed to window.setTimeout by attemptReconnect
timerCallback(m, t) ==
  IF m.reconnectAttempt > maxReconnectAttempts
  THEN emit([log(m, "client.reconnect", "Failed to reconnect")
               EXCEPT !.reconnecting = FALSE, !.reconnectAttempt = 0],
            [ev |-> "close", reason |-> "Max reconnect attempts exceeded", sock |-> 0])
  ELSE LET m1 == log(m, "client.reconnect", "Reconnecting...")
       IN IF m1.config # 0
          THEN connect(m1, m1.config, "reconnect", t.oldWs, t.k)
          ELSE emit([log(m1, "client.reconnect", "Cannot reconnect: No config available")
                       EXCEPT !.reconnecting = FALSE, !.reconnectAttempt = 0],
                    [ev |-> "close", reason |-> "No config available for reconnection",
                     sock |-> 0])

\* .then() of the connect promise made by the timer callback
reconnectThenKeepsState(m) ==
  log(m, "client.reconnect", "Reconnection successful")

reconnectThenKeepsAttempt(m) ==
  [log(m, "client.reconnect", "Reconnection successful")
     EXCEPT !.reconnecting = FALSE]

reconnectThen(m) ==
  [log(m, "client.reconnect", "Reconnection successful")
     EXCEPT !.reconnecting = FALSE, !.reconnectAttempt = 0]

\* .catch() of the connect promise made by the timer callback
reconnectCatch(m, oldWs, try) ==
  attemptReconnect(log(m, "client.reconnect", "Reconnection failed"), oldWs, try + 1)

\* resolve(true) / reject(...) of the promise returned by connect: the
\* reactions of a reconnect's promise are queued as microtasks
settle(m, s, kind) ==
  LET m1 == [m EXCEPT !.sockets[s].settled = kind]
  IN IF m.sockets[s].origin = "reconnect"
     THEN [m1 EXCEPT !.microtasks = Append(@, [kind |-> kind, sock |-> s])]
     ELSE m1

\* _sendDirect(request): throws when there is no current socket, else writes
\* the frame to it
sendDirectDrops(m, request) ==
  IF m.ws = 0
  THEN m
  ELSE [m EXCEPT !.sockets[m.ws].sent = Append(@, request)]

sendDirect(m, request) ==
  IF m.ws = 0
  THEN [m EXCEPT !.threw = TRUE]
  ELSE [m EXCEPT !.sockets[m.ws].sent = Append(@, request)]

\* onError: the socket's "error" listener, attached until the socket opens
onErrorRetries(m, s) ==
  LET m1 == log(disconnect(m, s), "server.error", "Could not connect")
  IN settle(attemptReconnect(m1, s, 1), s, "catch")

onErrorKeepsAttempt(m, s) ==
  LET m1 == [disconnect(m, s) EXCEPT !.reconnectAttempt = m.reconnectAttempt]
  IN settle(log(m1, "server.error", "Could not connect"), s, "catch")

onError(m, s) ==
  settle(log(disconnect(m, s), "server.error", "Could not connect"), s, "catch")

\* sendRealtimeInput(chunks): chunks is the set of media kinds of the batch
realtimeInputMessage(chunks) ==
  IF "audio" \in chunks /\ "image" \in chunks THEN "audio + video"
  ELSE IF "audio" \in chunks THEN "audio"
  ELSE IF "image" \in chunks THEN "video"
  ELSE "unknown"

sendRealtimeInput(m, chunks) ==
  LET m1 == sendDirect(m, [kind |-> "realtimeInput", config |-> 0])
  IN IF m1.threw THEN m1 ELSE log(m1, "client.realtimeInput", realtimeInputMessage(chunks))

\* sendToolResponse(toolResponse)
sendToolResponse(m) ==
  LET m1 == sendDirect(m, [kind |-> "toolResponse", config |-> 0])
  IN IF m1.threw THEN m1 ELSE log(m1, "client.toolResponse", "toolResponse")

\* send(parts, turnComplete)
send(m) ==
  LET m1 == sendDirect(m, [kind |-> "clientContent", config |-> 0])
  IN IF m1.threw THEN m1 ELSE log(m1, "client.send", "clientContent")

\* ---------------------------------------------------------- inbound frames
\* A part is named by its kind: inline audio/pcm data (two different
\* payloads), inline audio/pcm with empty data, text, or inline data of
\* another MIME type.
PartKinds == {"audio", "audio2", "audioEmpty", "text", "image"}

PartSeqs == UNION {[1..n -> PartKinds] : n \in 0..MaxParts}

NoContent ==
  [present |-> FALSE, interrupted |-> FALSE, turnComplete |-> FALSE,
   modelTurn |-> FALSE, parts |-> <<>>]

ServerContents ==
  {sc \in [present : {TRUE}, interrupted : BOOLEAN, turnComplete : BOOLEAN,
           modelTurn : BOOLEAN, parts : PartSeqs] :
     ~sc.modelTurn => sc.parts = <<>>}

\* the decoded JSON of an inbound frame: which keys it carries (a frame that
\* carries another key next to serverContent has at most one part)
Frames ==
  {f \in [toolCall : BOOLEAN, toolCallCancellation : BOOLEAN,
          setupComplete : BOOLEAN,
          serverContent : ServerContents \cup {NoContent}] :
     (f.toolCall \/ f.toolCallCancellation \/ f.setupComplete)
       => Len(f.serverContent.parts) <= 1}

\* a frame that carries no known key
EmptyFrame ==
  [toolCall |-> FALSE, toolCallCancellation |-> FALSE, setupComplete |-> FALSE,
   serverContent |-> NoContent]

\* the payload of a message event: JSON text of a frame, or text that is not
\* JSON
Blobs ==
  {[wellFormed |-> TRUE, json |-> f] : f \in Frames}
    \cup {[wellFormed |-> FALSE, json |-> EmptyFrame]}

\* blobToJSON(blob): the promise resolves with the parsed frame, or does not
\* resolve when the text is not JSON
decodes(blob) == blob.wellFormed

blobToJSON(blob) == blob.json

isToolCallMessage(f) == f.toolCall

isToolCallCancellationMessage(f) == f.toolCallCancellation

isSetupCompleteMessage(f) == f.setupComplete

isServerContentMessage(f) == f.serverContent.present

isInterrupted(sc) == sc.interrupted

isTurnComplete(sc) == sc.turnComplete

isModelTurn(sc) == sc.modelTurn

\* p.inlineData && p.inlineData.mimeType.startsWith("audio/pcm")
isAudioPart(p) == p \in {"audio", "audio2", "audioEmpty"}

audioPartsOf(parts) == SelectSeq(parts, isAudioPart)

otherPartsOf(parts) == SelectSeq(parts, LAMBDA p : ~isAudioPart(p))

\* base64s.forEach: one audio event and one log entry per non-empty payload
RECURSIVE emitAudio(_, _)
emitAudio(m, audioParts) ==
  IF audioParts = <<>>
  THEN m
  ELSE emitAudio(IF Head(audioParts) # "audioEmpty"
                 THEN log(emit(m, [ev |-> "audio", data |-> Head(audioParts)]),
                          "server.audio", "buffer")
                 ELSE m,
                 Tail(audioParts))

\* the modelTurn branch of receive
receiveModelTurnKeepsAudio(m, sc) ==
  LET m1 == emitAudio(m, audioPartsOf(sc.parts))
      otherParts == otherPartsOf(sc.parts)
  IN IF otherParts = <<>>
     THEN m1
     ELSE log(emit(m1, [ev |-> "content", parts |-> sc.parts]),
              "server.content", "response")

receiveModelTurn(m, sc) ==
  LET m1 == emitAudio(m, audioPartsOf(sc.parts))
      otherParts == otherPartsOf(sc.parts)
  IN IF otherParts = <<>>
     THEN m1
     ELSE log(emit(m1, [ev |-> "content", parts |-> otherParts]),
              "server.content", "response")

\* receive(blob), after the payload is decoded to the frame f
receiveReturnsOnTurnComplete(m, f) ==
  IF isToolCallMessage(f)
  THEN emit(log(m, "server.toolCall", "response"), [ev |-> "toolcall"])
  ELSE IF isToolCallCancellationMessage(f)
  THEN emit(log(m, "receive.toolCallCancellation", "response"),
            [ev |-> "toolcallcancellation"])
  ELSE IF isSetupCompleteMessage(f)
  THEN emit(log(m, "server.send", "setupComplete"), [ev |-> "setupcomplete"])
  ELSE IF isServerContentMessage(f)
  THEN LET sc == f.serverContent
       IN IF isInterrupted(sc)
          THEN emit(log(m, "receive.serverContent", "interrupted"),
                    [ev |-> "interrupted"])
          ELSE IF isTurnComplete(sc)
          THEN emit(log(m, "server.send", "turnComplete"), [ev |-> "turncomplete"])
          ELSE IF isModelTurn(sc) THEN receiveModelTurn(m, sc) ELSE m
  ELSE m

receiveServerContentFirst(m, f) ==
  IF isServerContentMessage(f)
  THEN LET sc == f.serverContent
       IN IF isInterrupted(sc)
          THEN emit(log(m, "receive.serverContent", "interrupted"),
                    [ev |-> "interrupted"])
          ELSE LET m1 == IF isTurnComplete(sc)
                         THEN emit(log(m, "server.send", "turnComplete"),
                                   [ev |-> "turncomplete"])
                         ELSE m
               IN IF isModelTurn(sc) THEN receiveModelTurn(m1, sc) ELSE m1
  ELSE IF isToolCallMessage(f)
  THEN emit(log(m, "server.toolCall", "response"), [ev |-> "toolcall"])
  ELSE IF isToolCallCancellationMessage(f)
  THEN emit(log(m, "receive.toolCallCancellation", "response"),
            [ev |-> "toolcallcancellation"])
  ELSE IF isSetupCompleteMessage(f)
  THEN emit(log(m, "server.send", "setupComplete"), [ev |-> "setupcomplete"])
  ELSE m

receiveInterruptedContinues(m, f) ==
  IF isToolCallMessage(f)
  THEN emit(log(m, "server.toolCall", "response"), [ev |-> "toolcall"])
  ELSE IF isToolCallCancellationMessage(f)
  THEN emit(log(m, "receive.toolCallCancellation", "response"),
            [ev |-> "toolcallcancellation"])
  ELSE IF isSetupCompleteMessage(f)
  THEN emit(log(m, "server.send", "setupComplete"), [ev |-> "setupcomplete"])
  ELSE IF isServerContentMessage(f)
  THEN LET sc == f.serverContent
       IN IF isInterrupted(sc)
          THEN LET m0 == emit(log(m, "receive.serverContent", "interrupted"),
                              [ev |-> "interrupted"])
                   m1 == IF isTurnComplete(sc)
                         THEN emit(log(m0, "server.send", "turnComplete"),
                                   [ev |-> "turncomplete"])
                         ELSE m0
               IN IF isModelTurn(sc) THEN receiveModelTurn(m1, sc) ELSE m1
          ELSE LET m1 == IF isTurnComplete(sc)
                         THEN emit(log(m, "server.send", "turnComplete"),
                                   [ev |-> "turncomplete"])
                         ELSE m
               IN IF isModelTurn(sc) THEN receiveModelTurn(m1, sc) ELSE m1
  ELSE m

receive(m, f) ==
  IF isToolCallMessage(f)
  THEN emit(log(m, "server.toolCall", "response"), [ev |-> "toolcall"])
  ELSE IF isToolCallCancellationMessage(f)
  THEN emit(log(m, "receive.toolCallCancellation", "response"),
            [ev |-> "toolcallcancellation"])
  ELSE IF isSetupCompleteMessage(f)
  THEN emit(log(m, "server.send", "setupComplete"), [ev |-> "setupcomplete"])
  ELSE IF isServerContentMessage(f)
  THEN LET sc == f.serverContent
       IN IF isInterrupted(sc)
          THEN emit(log(m, "receive.serverContent", "interrupted"),
                    [ev |-> "interrupted"])
          ELSE LET m1 == IF isTurnComplete(sc)
                         THEN emit(log(m, "server.send", "turnComplete"),
                                   [ev |-> "turncomplete"])
                         ELSE m
               IN IF isModelTurn(sc) THEN receiveModelTurn(m1, sc) ELSE m1
  ELSE m

\* the "message" listener: receive(blob) awaits blobToJSON(blob) and handles
\* the frame; when the payload does not decode, the promise receive returned
\* never completes normally and nothing of receive's body runs
onMessage(m, blob) ==
  IF decodes(blob)
  THEN receive(m, blobToJSON(blob))
  ELSE [m EXCEPT !.threw = TRUE]

\* the "open" listener
onOpenAwaitsSetupComplete(m, s) ==
  IF m.config = 0
  THEN settle(m, s, "catch")
  ELSE LET m1 == emit(log(m, "client.open", "connected to socket"), [ev |-> "open"])
           m2 == sendDirect([m1 EXCEPT !.ws = s, !.sockets[s].setup = m1.config],
                            [kind |-> "setup", config |-> m1.config])
       IN log(m2, "client.send", "setup")

onOpenNoSetup(m, s) ==
  IF m.config = 0
  THEN settle(m, s, "catch")
  ELSE LET m1 == emit(log(m, "client.open", "connected to socket"), [ev |-> "open"])
           m2 == [m1 EXCEPT !.ws = s, !.sockets[s].setup = m1.config]
       IN settle(m2, s, "then")

onOpen(m, s) ==
  IF m.config = 0
  THEN settle(m, s, "catch")
  ELSE LET m1 == emit(log(m, "client.open", "connected to socket"), [ev |-> "open"])
           m2 == sendDirect([m1 EXCEPT !.ws = s, !.sockets[s].setup = m1.config],
                            [kind |-> "setup", config |-> m1.config])
           m3 == log(m2, "client.send", "setup")
       IN settle(m3, s, "then")

\* ------------------------------------------------------- the close reason
\* A string is the sequence of its characters.
prelude == <<"E", "R", "R", "O", "R", "]">>

\* String.prototype.toLowerCase, on the characters close reasons are made of
toLowerCase(str) ==
  [i \in 1..Len(str) |->
     CASE str[i] = "E" -> "e"
       [] str[i] = "R" -> "r"
       [] str[i] = "O" -> "o"
       [] OTHER        -> str[i]]

\* String.prototype.indexOf: the 0-based index of the first occurrence, or -1
indexOf(str, pat) ==
  LET at == {i \in 0..(Len(str) - Len(pat)) : SubSeq(str, i + 1, i + Len(pat)) = pat}
  IN IF at = {} THEN -1 ELSE CHOOSE i \in at : \A j \in at : i <= j

\* String.prototype.includes
includes(str, pat) == indexOf(str, pat) # -1

\* String.prototype.slice(start, Infinity), start >= 0
slice(str, start) == SubSeq(str, start + 1, Len(str))

\* reason.toLowerCase().includes("error")
shouldReconnect(r) == includes(toLowerCase(r), <<"e", "r", "r", "o", "r">>)

\* the reason the close listener puts in its log entry
extractReason(r) ==
  IF shouldReconnect(r)
  THEN LET preludeIndex == indexOf(r, prelude)
       IN IF preludeIndex > 0
          THEN slice(r, preludeIndex + Len(prelude) + 1)
          ELSE r
  ELSE r

\* the words close reasons are made of, and the reasons
ReasonWords == {prelude, <<"e", "r", "r", "o", "r">>, <<" ">>, <<"b">>}

RECURSIVE Concat(_)
Concat(words) == IF words = <<>> THEN <<>> ELSE Head(words) \o Concat(Tail(words))

Reasons == {Concat(w) : w \in UNION {[1..n -> ReasonWords] : n \in 0..MaxReasonWords}}

\* the "close" listener, installed by the "open" listener.
\* err: the close reason contains "error" (case-insensitively)
onCloseIgnoresInProgress(m, s, err) ==
  LET ev == [ev |-> "close", reason |-> IF err THEN "error" ELSE "normal", sock |-> s]
      m1 == log(m, "server.close", "disconnected")
  IN IF err /\ m1.config # 0
     THEN attemptReconnect(m1, s, 1)
     ELSE emit(disconnect(m1, s), ev)

onClose(m, s, err) ==
  LET ev == [ev |-> "close", reason |-> IF err THEN "error" ELSE "normal", sock |-> s]
      m1 == log(m, "server.close", "disconnected")
  IN IF err /\ m1.config # 0 /\ ~m1.reconnecting
     THEN attemptReconnect(m1, s, 1)
     ELSE emit(disconnect(m1, s), ev)

\* --------------------------------------------------------------- the state
NoFrame == [none |-> TRUE]

NoReason == [given |-> <<>>, logged |-> <<>>]

NoStep == [op |-> "init", sock |-> 0, err |-> FALSE, ret |-> FALSE]

Init ==
  /\ ws = 0
  /\ config = 0
  /\ reconnecting = FALSE
  /\ reconnectAttempt = 0
  /\ reconnectTimeoutId = 0
  /\ sockets = <<>>
  /\ timers = {}
  /\ nextTimer = 1
  /\ microtasks = <<>>
  /\ out = <<>>
  /\ step = NoStep
  /\ retryNo = 0
  /\ closeCount = 0
  /\ established = FALSE
  /\ overlap = FALSE
  /\ cancelled = FALSE
  /\ fresh = 0
  /\ frame = NoFrame
  /\ decoding = <<>>
  /\ reason = NoReason
  /\ requested = 0
  /\ hook = [connected |-> FALSE, reconnecting |-> FALSE]
  /\ assembly = [status |-> "disconnected", sessionId |-> 0, retryCount |-> 0,
                 transcriber |-> 0, transcribers |-> <<>>, timers |-> 0,
                 tokens |-> [caller |-> 0, timer |-> 0], attempts |-> 0,
                 disconnected |-> FALSE, connectCalls |-> 0]

Closes(m) == Cardinality({i \in 1..Len(m.out) : m.out[i].ev = "close"})

AllDead(ss) == \A i \in 1..Len(ss) : ss[i].phase \in {"closed", "failed"}

\* the new values of the program's variables and of the `close` counter
Commit(m) ==
  /\ ws' = m.ws
  /\ config' = m.config
  /\ reconnecting' = m.reconnecting
  /\ reconnectAttempt' = m.reconnectAttempt
  /\ reconnectTimeoutId' = m.reconnectTimeoutId
  /\ sockets' = m.sockets
  /\ timers' = m.timers
  /\ nextTimer' = m.nextTimer
  /\ microtasks' = m.microtasks
  /\ out' = m.out
  /\ retryNo' = m.retryNo

Count(m) == closeCount' = Min(2, closeCount + Closes(m))

\* ------------------------------------------------------------- the actions
\* the caller calls connect(c)
CallConnect(c, cap) ==
  /\ microtasks = <<>>
  /\ Len(sockets) < cap
  /\ Commit(connect(Cur, c, "caller", 0, 0))
  /\ step' = [op |-> "connect", sock |-> Len(sockets) + 1, err |-> FALSE, ret |-> FALSE]
  /\ closeCount' = 0
  /\ established' = FALSE
  /\ overlap' = ~(AllDead(sockets) /\ timers = {})
  /\ cancelled' = FALSE
  /\ fresh' = (IF step.op = "disconnect" THEN Len(sockets) + 1 ELSE 0)
  /\ requested' = c
  /\ UNCHANGED <<frame, decoding, reason, hook, assembly>>

\* the caller calls disconnect()
CallDisconnect ==
  /\ microtasks = <<>>
  /\ Commit(disconnect(Cur, 0))
  /\ Count(disconnect(Cur, 0))
  /\ step' = [op |-> "disconnect", sock |-> 0, err |-> FALSE,
              ret |-> disconnectReturn(Cur, 0)]
  /\ cancelled' = (cancelled \/ (reconnecting /\ ~overlap))
  /\ UNCHANGED <<established, overlap, fresh, frame, decoding, reason, requested, hook, assembly>>

\* the transport opens socket s
TransportOpen(s) ==
  /\ microtasks = <<>>
  /\ sockets[s].phase = "connecting"
  /\ LET m == onOpen([Cur EXCEPT !.sockets[s].phase = "open"], s)
     IN Commit(m) /\ Count(m)
  /\ step' = [op |-> "open", sock |-> s, err |-> FALSE, ret |-> FALSE]
  /\ established' = TRUE
  /\ UNCHANGED <<overlap, cancelled, fresh, frame, decoding, reason, requested, hook, assembly>>

\* the transport fails socket s before it opened
TransportError(s) ==
  /\ microtasks = <<>>
  /\ sockets[s].phase = "connecting"
  /\ LET m == onError([Cur EXCEPT !.sockets[s].phase = "failed"], s)
     IN Commit(m) /\ Count(m)
  /\ step' = [op |-> "error", sock |-> s, err |-> TRUE, ret |-> FALSE]
  /\ UNCHANGED <<established, overlap, cancelled, fresh, frame, decoding, reason, requested, hook, assembly>>

\* the transport closes an opened socket s (closed by the server, or the
\* end of the closing handshake started by the client); the reason is the
\* server's
TransportClose(s, err) ==
  /\ microtasks = <<>>
  /\ sockets[s].phase \in {"open", "closing"}
  /\ LET m == onClose([Cur EXCEPT !.sockets[s].phase = "closed"], s, err)
     IN Commit(m) /\ Count(m)
  /\ step' = [op |-> "close", sock |-> s, err |-> err, ret |-> FALSE]
  /\ UNCHANGED <<established, overlap, cancelled, fresh, frame, decoding, reason, requested, hook, assembly>>

\* a reconnection timer fires
TimerFire(t, cap) ==
  /\ microtasks = <<>>
  /\ t \in timers
  /\ Len(sockets) < cap
  /\ LET m == timerCallback([Cur EXCEPT !.timers = @ \ {t}], t)
     IN Commit(m) /\ Count(m)
  /\ step' = [op |-> "timer", sock |-> t.id, err |-> FALSE, ret |-> FALSE]
  /\ UNCHANGED <<established, overlap, cancelled, fresh, frame, decoding, reason, requested, hook, assembly>>

\* the next promise reaction runs
RunMicrotask ==
  /\ microtasks # <<>>
  /\ LET r  == Head(microtasks)
         m0 == [Cur EXCEPT !.microtasks = Tail(@)]
         m  == IF r.kind = "then"
               THEN reconnectThen(m0)
               ELSE reconnectCatch(m0, sockets[r.sock].oldWs, sockets[r.sock].try)
     IN Commit(m) /\ Count(m)
  /\ step' = [op |-> Head(microtasks).kind, sock |-> Head(microtasks).sock,
              err |-> FALSE, ret |-> FALSE]
  /\ UNCHANGED <<established, overlap, cancelled, fresh, frame, decoding, reason, requested, hook, assembly>>

Sock == 1..Len(sockets)

Next ==
  \/ \E c \in Configs : CallConnect(c, MaxSockets)
  \/ CallDisconnect
  \/ \E s \in Sock : TransportOpen(s)
  \/ \E s \in Sock : TransportError(s)
  \/ \E s \in Sock, err \in BOOLEAN : TransportClose(s, err)
  \/ \E t \in timers : TimerFire(t, MaxSockets)
  \/ RunMicrotask

Spec == Init /\ [][Next]_vars

TypeOK ==
  /\ ws \in 0..Len(sockets)
  /\ config \in 0..NumConfigs
  /\ reconnecting \in BOOLEAN
  /\ reconnectAttempt \in 0..(maxReconnectAttempts + 1)
  /\ reconnectTimeoutId \in 0..nextTimer
  /\ \A t \in timers : t.id < nextTimer
  /\ Len(microtasks) <= 1

\* ---------------------------------------------- one session, no caller calls
\* The caller connects once and then leaves the client alone: the transport
\* and the timers drive the reconnection sequences.
SessionConnect(c) ==
  /\ sockets = <<>>
  /\ CallConnect(c, MaxSessionSockets)

SessionTimerFire(t) == TimerFire(t, MaxSessionSockets)

NextRetry ==
  \/ \E c \in Configs : SessionConnect(c)
  \/ \E s \in Sock : TransportOpen(s)
  \/ \E s \in Sock : TransportError(s)
  \/ \E s \in Sock, err \in BOOLEAN : TransportClose(s, err)
  \/ \E t \in timers : SessionTimerFire(t)
  \/ RunMicrotask

SpecRetry == Init /\ [][NextRetry]_vars

\* The transport accepts one of the next maxReconnectAttempts connection
\* attempts of a sequence, and an abnormal closure happens only while the
\* sockets of a whole sequence can still be created.
AcceptingTransportError(s) ==
  /\ sockets[s].origin = "reconnect" => sockets[s].try < maxReconnectAttempts
  /\ TransportError(s)

AcceptingTransportClose(s, err) ==
  /\ err => Len(sockets) + maxReconnectAttempts <= MaxSessionSockets
  /\ TransportClose(s, err)

TransportAnswers == \E s \in Sock : TransportOpen(s) \/ AcceptingTransportError(s)

TimerFires == \E t \in timers : SessionTimerFire(t)

NextRecover ==
  \/ \E c \in Configs : SessionConnect(c)
  \/ \E s \in Sock : TransportOpen(s)
  \/ \E s \in Sock : AcceptingTransportError(s)
  \/ \E s \in Sock, err \in BOOLEAN : AcceptingTransportClose(s, err)
  \/ \E t \in timers : SessionTimerFire(t)
  \/ RunMicrotask

\* timers fire, the transport answers every connection attempt, and promise
\* reactions run
SpecRecover ==
  /\ Init /\ [][NextRecover]_vars
  /\ WF_vars(TimerFires)
  /\ WF_vars(TransportAnswers)
  /\ WF_vars(RunMicrotask)

\* ------------------------------------------------------ the caller sends
\* frames written after the setup frames, over all sockets
RECURSIVE FramesOn(_)
FramesOn(i) ==
  IF i = 0 THEN 0
  ELSE FramesOn(i - 1) + Len(SelectSeq(sockets[i].sent, LAMBDA r : r.kind # "setup"))

FramesSent == FramesOn(Len(sockets))

\* the caller calls one of send, sendRealtimeInput, sendToolResponse
Sent(m) ==
  /\ microtasks = <<>>
  /\ ws # 0 => FramesSent < MaxFrames
  /\ Commit(m)
  /\ step' = [op |-> "send", sock |-> ws, err |-> m.threw, ret |-> FALSE]
  /\ UNCHANGED <<closeCount, established, overlap, cancelled, fresh, frame, decoding, reason, requested, hook, assembly>>

CallSend == Sent(send(Cur))

CallSendRealtimeInput(chunks) == Sent(sendRealtimeInput(Cur, chunks))

CallSendToolResponse == Sent(sendToolResponse(Cur))

MediaKinds == {"audio", "image"}

\* the caller connects when no earlier session is still in flight
SendConnect(c) ==
  /\ AllDead(sockets)
  /\ timers = {}
  /\ CallConnect(c, MaxSendSockets)

NextSend ==
  \/ \E c \in Configs : SendConnect(c)
  \/ CallDisconnect
  \/ \E s \in Sock : TransportOpen(s)
  \/ \E s \in Sock : TransportError(s)
  \/ \E s \in Sock, err \in BOOLEAN : TransportClose(s, err)
  \/ \E t \in timers : TimerFire(t, MaxSendSockets)
  \/ RunMicrotask
  \/ CallSend
  \/ \E chunks \in SUBSET MediaKinds : CallSendRealtimeInput(chunks)
  \/ CallSendToolResponse

SpecSend == Init /\ [][NextSend]_vars

\* --------------------------------------------------- the server sends
\* the "message" listener of socket s: a payload arrives, is decoded and
\* receive handles the frame, with no other task in between
TransportMessage(s, blob) ==
  /\ microtasks = <<>>
  /\ sockets[s].phase \in {"open", "closing"}
  /\ decoding = <<>>
  /\ Commit(onMessage(Cur, blob))
  /\ frame' = blobToJSON(blob)
  /\ step' = [op |-> "receive", sock |-> s, err |-> onMessage(Cur, blob).threw,
              ret |-> FALSE]
  /\ UNCHANGED <<closeCount, established, overlap, cancelled, fresh,
                 decoding, reason, requested, hook, assembly>>

\* receive reads no field of the client: one configuration is enough
NextReceive ==
  \/ SessionConnect(1)
  \/ \E s \in Sock : TransportOpen(s)
  \/ \E s \in Sock, blob \in Blobs : TransportMessage(s, blob)

SpecReceive == Init /\ [][NextReceive]_vars

\* ------------------------------------------- payloads decoded one by one
\* receive awaits blobToJSON(blob): the payload of a message event is read
\* asynchronously, and the rest of receive runs when that read completes.
\* Each message event starts its own read; nothing orders their completions.
OrderBlobs == {b \in Blobs : b.json.serverContent = NoContent}

\* the "message" listener of socket s: receive(blob) starts decoding
MessageArrives(s, blob) ==
  /\ microtasks = <<>>
  /\ sockets[s].phase \in {"open", "closing"}
  /\ Len(decoding) < MaxPending
  /\ Commit(Cur)
  /\ decoding' = Append(decoding, [blob |-> blob, sock |-> s])
  /\ step' = [op |-> "message", sock |-> s, err |-> FALSE, ret |-> FALSE]
  /\ UNCHANGED <<closeCount, established, overlap, cancelled, fresh, frame,
                 reason, requested, hook, assembly>>

\* blobToJSON of the i-th payload being decoded completes: receive continues
DecodeCompletes(i) ==
  /\ microtasks = <<>>
  /\ i \in 1..Len(decoding)
  /\ Commit(onMessage(Cur, decoding[i].blob))
  /\ frame' = blobToJSON(decoding[i].blob)
  /\ decoding' = [j \in 1..(Len(decoding) - 1) |->
                    IF j < i THEN decoding[j] ELSE decoding[j + 1]]
  /\ step' = [op |-> "receive", sock |-> decoding[i].sock,
              err |-> onMessage(Cur, decoding[i].blob).threw, ret |-> FALSE]
  /\ UNCHANGED <<closeCount, established, overlap, cancelled, fresh,
                 reason, requested, hook, assembly>>

NextOrder ==
  \/ SessionConnect(1)
  \/ \E s \in Sock : TransportOpen(s)
  \/ \E s \in Sock, blob \in OrderBlobs : MessageArrives(s, blob)
  \/ \E i \in 1..Len(decoding) : DecodeCompletes(i)

SpecOrder == Init /\ [][NextOrder]_vars

\* ------------------------------------------ closures with their reasons
\* the transport closes an opened socket s with the reason r
TransportCloseReason(s, r) ==
  /\ microtasks = <<>>
  /\ sockets[s].phase \in {"open", "closing"}
  /\ LET m == onClose([Cur EXCEPT !.sockets[s].phase = "closed"], s, shouldReconnect(r))
     IN Commit(m) /\ Count(m)
  /\ step' = [op |-> "close", sock |-> s, err |-> shouldReconnect(r), ret |-> FALSE]
  /\ reason' = [given |-> r, logged |-> extractReason(r)]
  /\ UNCHANGED <<established, overlap, cancelled, fresh, frame, decoding, requested, hook, assembly>>

NextReason ==
  \/ SessionConnect(1)
  \/ \E s \in Sock : TransportOpen(s)
  \/ \E s \in Sock, r \in Reasons : TransportCloseReason(s, r)
  \/ \E t \in timers : SessionTimerFire(t)
  \/ RunMicrotask

SpecReason == Init /\ [][NextReason]_vars

\* ------------------------------------- connect, then disconnect at once
\* The caller calls connect(c) and, before the transport answers,
\* disconnect(); after that only the transport and the timers act.
AbortDisconnect ==
  /\ step.op = "connect"
  /\ CallDisconnect

Aborted == step.op \notin {"init", "connect"}

NextAbort ==
  \/ \E c \in Configs : SessionConnect(c)
  \/ AbortDisconnect
  \/ \E s \in Sock : Aborted /\ TransportOpen(s)
  \/ \E s \in Sock : Aborted /\ TransportError(s)
  \/ \E s \in Sock, err \in BOOLEAN : Aborted /\ TransportClose(s, err)
  \/ \E t \in timers : Aborted /\ SessionTimerFire(t)
  \/ Aborted /\ RunMicrotask

SpecAbort == Init /\ [][NextAbort]_vars

\* --------------------------------------------------- the useLiveAPI hook
\* The hook owns the client: its connect() and disconnect() are the only
\* callers, and its listeners run inside the client's emit.

\* the listeners registered by the hook's effect, applied to one event
hookListen(h, e) ==
  IF e.ev = "close"
  THEN [h EXCEPT !.connected = FALSE]
  ELSE IF e.ev = "client.reconnect"
  THEN IF e.message = "Reconnection successful"
       THEN [h EXCEPT !.reconnecting = FALSE, !.connected = TRUE]
       ELSE IF e.message \in {"Attempting to reconnect", "Reconnecting..."}
            THEN [h EXCEPT !.reconnecting = TRUE]
            ELSE h
  ELSE h

\* the hook's state after the events o of a task, in emission order
RECURSIVE hookAfter(_, _)
hookAfter(h, o) ==
  IF o = <<>> THEN h ELSE hookAfter(hookListen(h, Head(o)), Tail(o))

\* onReconnectSuccess's client.send([{ text: contextMessage }]), whose
\* exception is caught
onReconnectSuccess(m) ==
  IF \E i \in 1..Len(m.out) : /\ m.out[i].ev = "client.reconnect"
                              /\ m.out[i].message = "Reconnection successful"
  THEN [send(m) EXCEPT !.threw = FALSE]
  ELSE m

\* a task of the client with the hook's listeners attached; h is the hook's
\* state once the task and its continuation in the hook have run
HookTask(m, h, op, s, err) ==
  /\ Commit(onReconnectSuccess(m))
  /\ hook' = h
  /\ step' = [op |-> op, sock |-> s, err |-> err, ret |-> FALSE]
  /\ UNCHANGED <<closeCount, established, overlap, cancelled, fresh, frame,
                 decoding, reason, requested, assembly>>

\* the hook's connect(): client.disconnect(); await client.connect(config)
HookConnect(c) ==
  /\ microtasks = <<>>
  /\ Len(sockets) < MaxHookSockets
  /\ LET m == connect(disconnect(Cur, 0), c, "caller", 0, 0)
     IN HookTask(m, hookAfter(hook, m.out), "connect", Len(sockets) + 1, FALSE)

\* the hook's disconnect(): client.disconnect(); setConnected(false)
HookDisconnect ==
  /\ microtasks = <<>>
  /\ LET m == disconnect(Cur, 0)
     IN HookTask(m, [hookAfter(hook, m.out) EXCEPT !.connected = FALSE],
                 "disconnect", 0, FALSE)

\* the transport opens socket s; the promise awaited by the hook's connect
\* resolves and its continuation calls setConnected(true)
HookOpen(s) ==
  /\ microtasks = <<>>
  /\ sockets[s].phase = "connecting"
  /\ LET m == onOpen([Cur EXCEPT !.sockets[s].phase = "open"], s)
         h == hookAfter(hook, m.out)
     IN HookTask(m,
                 IF m.sockets[s].origin = "caller" /\ m.sockets[s].settled = "then"
                 THEN [h EXCEPT !.connected = TRUE] ELSE h,
                 "open", s, FALSE)

\* the transport fails socket s: the hook's connect, if it awaits s, throws
HookError(s) ==
  /\ microtasks = <<>>
  /\ sockets[s].phase = "connecting"
  /\ LET m == onError([Cur EXCEPT !.sockets[s].phase = "failed"], s)
     IN HookTask(m, hookAfter(hook, m.out), "error", s, TRUE)

HookClose(s, err) ==
  /\ microtasks = <<>>
  /\ sockets[s].phase \in {"open", "closing"}
  /\ LET m == onClose([Cur EXCEPT !.sockets[s].phase = "closed"], s, err)
     IN HookTask(m, hookAfter(hook, m.out), "close", s, err)

HookTimer(t) ==
  /\ microtasks = <<>>
  /\ t \in timers
  /\ Len(sockets) < MaxHookSockets
  /\ LET m == timerCallback([Cur EXCEPT !.timers = @ \ {t}], t)
     IN HookTask(m, hookAfter(hook, m.out), "timer", t.id, FALSE)

HookMicrotask ==
  /\ microtasks # <<>>
  /\ LET r  == Head(microtasks)
         m0 == [Cur EXCEPT !.microtasks = Tail(@)]
         m  == IF r.kind = "then"
               THEN reconnectThen(m0)
               ELSE reconnectCatch(m0, sockets[r.sock].oldWs, sockets[r.sock].try)
     IN HookTask(m, hookAfter(hook, m.out), r.kind, r.sock, FALSE)

NextHook ==
  \/ HookConnect(1)
  \/ HookDisconnect
  \/ \E s \in Sock : HookOpen(s)
  \/ \E s \in Sock : HookError(s)
  \/ \E s \in Sock, err \in BOOLEAN : HookClose(s, err)
  \/ \E t \in timers : HookTimer(t)
  \/ HookMicrotask

SpecHook == Init /\ [][NextHook]_vars

\* ------------------------------------------------- the AssemblyAIClient
\* `assembly` holds the object's fields (status, sessionId, retryCount,
\* transcriber: 0 is null), the transcribers created so far, the number of
\* pending retry timers, the getToken requests in flight by the origin of
\* their connect call, and three history fields: the retry connects since
\* the last resolved transcriber.connect(), whether disconnect() completed
\* with nothing of the caller's running since, and the caller's connect calls.

\* everything but the AssemblyAIClient
clientVars ==
  <<ws, config, reconnecting, reconnectAttempt, reconnectTimeoutId,
    sockets, timers, nextTimer, microtasks, out, step,
    retryNo, closeCount, established, overlap, cancelled, fresh, frame,
    decoding, reason, requested, hook>>

updateStatus(a, status) == [a EXCEPT !.status = status]

\* attemptReconnect(), up to and including setTimeout
assemblyAttemptReconnect(a) ==
  IF a.retryCount >= maxRetries
  THEN a
  ELSE [updateStatus(a, "reconnecting") EXCEPT !.timers = @ + 1]

handleConnectionError(a) == assemblyAttemptReconnect(updateStatus(a, "error"))

\* connect(userId) up to its first await, getToken
assemblyConnect(a, origin) ==
  [updateStatus(a, "connecting") EXCEPT !.tokens[origin] = @ + 1]

\* what follows `await this.transcriber.close()`, in disconnect and in the
\* timer callback
afterClose(a, waiter) ==
  IF waiter = "disconnect"
  THEN [updateStatus(a, "disconnected") EXCEPT !.sessionId = 0, !.disconnected = TRUE]
  ELSE IF a.sessionId # 0
       THEN [assemblyConnect(a, "timer") EXCEPT !.attempts = @ + 1]
       ELSE a

\* `if (this.transcriber) await this.transcriber.close()`: closing an open
\* transcriber takes a round trip, after which it is silent; any other is
\* silent at once and the caller goes on in the same task
transcriberClose(a, waiter) ==
  LET T == a.transcriber
  IN IF T = 0 THEN afterClose(a, waiter)
     ELSE IF a.transcribers[T].phase \in {"open", "closing"}
     THEN [a EXCEPT !.transcribers[T].phase = "closing",
                    !.transcribers[T].waiters = Append(@, waiter)]
     ELSE afterClose([a EXCEPT !.transcribers[T].phase =
                                  IF @ = "connecting" THEN "closed" ELSE @],
                     waiter)

RECURSIVE resume(_, _)
resume(a, waiters) ==
  IF waiters = <<>> THEN a ELSE resume(afterClose(a, Head(waiters)), Tail(waiters))

\* the setTimeout callback of attemptReconnect
retryTimerCallback(a) ==
  transcriberClose([a EXCEPT !.timers = @ - 1, !.retryCount = @ + 1], "timer")

\* the transcriber's "open" listener, then connect's `this.retryCount = 0`
onTranscriberOpen(a, T) ==
  [updateStatus(a, "connected") EXCEPT !.transcribers[T].phase = "open",
                                       !.sessionId = T,
                                       !.retryCount = 0,
                                       !.attempts = 0]

\* the transcriber's "close" listener
onTranscriberClose(a, T, code) ==
  LET a1 == updateStatus([a EXCEPT !.transcribers[T].phase = "closed"], "disconnected")
  IN IF code # 1000 THEN assemblyAttemptReconnect(a1) ELSE a1

\* a step of the caller, or of a connect call the caller made, is running
ofCaller(a, origin) ==
  IF origin = "caller" THEN [a EXCEPT !.disconnected = FALSE] ELSE a

AssemblyStep(a) == assembly' = a /\ UNCHANGED clientVars

Transcribers == 1..Len(assembly.transcribers)

Origins == {"caller", "timer"}

\* the caller calls connect(userId)
AssemblyConnect ==
  /\ assembly.connectCalls < MaxConnectCalls
  /\ AssemblyStep([ofCaller(assemblyConnect(assembly, "caller"), "caller")
                     EXCEPT !.connectCalls = @ + 1])

\* the caller calls disconnect()
AssemblyDisconnect ==
  /\ assembly.transcriber # 0
       => \A i \in 1..Len(assembly.transcribers[assembly.transcriber].waiters) :
            assembly.transcribers[assembly.transcriber].waiters[i] # "disconnect"
  /\ AssemblyStep(transcriberClose(assembly, "disconnect"))

\* getToken resolves: connect creates the transcriber, attaches the
\* listeners and calls transcriber.connect()
TokenResolves(origin) ==
  /\ assembly.tokens[origin] > 0
  /\ Len(assembly.transcribers) < MaxTranscribers
  /\ AssemblyStep([ofCaller(assembly, origin) EXCEPT
        !.tokens[origin] = @ - 1,
        !.transcribers = Append(@, [phase |-> "connecting", origin |-> origin,
                                    waiters |-> <<>>]),
        !.transcriber = Len(assembly.transcribers) + 1])

\* getToken throws
TokenRejects(origin) ==
  /\ assembly.tokens[origin] > 0
  /\ AssemblyStep(handleConnectionError(
        [ofCaller(assembly, origin) EXCEPT !.tokens[origin] = @ - 1]))

\* the session of transcriber T begins
TranscriberOpens(T) ==
  /\ assembly.transcribers[T].phase = "connecting"
  /\ AssemblyStep(onTranscriberOpen(
        ofCaller(assembly, assembly.transcribers[T].origin), T))

\* transcriber.connect() of T rejects
TranscriberRejects(T) ==
  /\ assembly.transcribers[T].phase = "connecting"
  /\ AssemblyStep(handleConnectionError(
        [ofCaller(assembly, assembly.transcribers[T].origin)
           EXCEPT !.transcribers[T].phase = "failed"]))

\* the socket of transcriber T closes with the given code
TranscriberCloses(T, code) ==
  /\ assembly.transcribers[T].phase \in {"connecting", "open"}
  /\ AssemblyStep(onTranscriberClose(
        ofCaller(assembly, assembly.transcribers[T].origin), T, code))

\* transcriber.close() of T resolves
TranscriberCloseCompletes(T) ==
  /\ assembly.transcribers[T].phase = "closing"
  /\ AssemblyStep(resume([assembly EXCEPT !.transcribers[T].phase = "closed",
                                          !.transcribers[T].waiters = <<>>],
                         assembly.transcribers[T].waiters))

\* a retry timer fires
RetryTimerFires ==
  /\ assembly.timers > 0
  /\ AssemblyStep(retryTimerCallback(assembly))

TokenSettles == \E o \in Origins : TokenResolves(o) \/ TokenRejects(o)

TranscriberAnswers ==
  \E T \in Transcribers : TranscriberOpens(T) \/ TranscriberRejects(T)

CloseCompletes == \E T \in Transcribers : TranscriberCloseCompletes(T)

NextAssembly ==
  \/ AssemblyConnect
  \/ AssemblyDisconnect
  \/ \E o \in Origins : TokenResolves(o)
  \/ \E o \in Origins : TokenRejects(o)
  \/ \E T \in Transcribers : TranscriberOpens(T)
  \/ \E T \in Transcribers : TranscriberRejects(T)
  \/ \E T \in Transcribers, code \in {1000, 1006} : TranscriberCloses(T, code)
  \/ \E T \in Transcribers : TranscriberCloseCompletes(T)
  \/ RetryTimerFires

\* timers fire, token requests and transcribers answer
SpecAssembly ==
  /\ Init /\ [][NextAssembly]_vars
  /\ WF_vars(RetryTimerFires)
  /\ WF_vars(TokenSettles)
  /\ WF_vars(TranscriberAnswers)
  /\ WF_vars(CloseCompletes)

\* ------------------------------------------------------------------ claims
Quiescent == ws = 0 /\ timers = {} /\ microtasks = <<>> /\ AllDead(sockets)

\* C1: once the logical session started by the caller's connect() has ended
\* (no socket, no timer, nothing in flight), the client has emitted `close`
\* exactly once for it.
C1_CloseExactlyOnce ==
  (Quiescent /\ established /\ ~overlap) => closeCount = 1

\* C2: in one reconnection sequence the client makes at most
\* maxReconnectAttempts connection attempts, then gives up.
C2_BoundedRetries ==
  \A i \in Sock : sockets[i].origin = "reconnect" => sockets[i].try <= maxReconnectAttempts

\* C3: once a reconnection sequence runs, and the transport accepts one of
\* its attempts, the client eventually has a new current socket with the
\* setup frame sent, reconnecting = FALSE and reconnectAttempt = 0.
Recovered ==
  /\ ws # 0
  /\ sockets[ws].origin = "reconnect"
  /\ sockets[ws].phase = "open"
  /\ sockets[ws].setup # 0
  /\ sockets[ws].setup = config
  /\ ~reconnecting
  /\ reconnectAttempt = 0

C3_TransparentRecovery == reconnecting ~> Recovered

C3_Witness == Recovered /\ step.op = "then" /\ sockets[ws].try >= 2

\* C4: after a caller disconnect() made during a reconnection sequence, and
\* until the caller's next connect(), the client is inert: not reconnecting,
\* counter 0, no timer pending, no socket installed.
C4_DisconnectCancels ==
  cancelled => (~reconnecting /\ reconnectAttempt = 0 /\ timers = {} /\ ws = 0)

\* C5: an abnormal closure handled while reconnecting is absorbed: timers,
\* reconnecting and reconnectAttempt are left as they were.
C5_SecondClosureAbsorbed ==
  [][(step'.op = "close" /\ step'.err /\ reconnecting)
       => (timers' = timers /\ reconnecting' /\ reconnectAttempt' = reconnectAttempt)]_vars

\* C6: at most one reconnection timer is pending, and it is the one recorded
\* in reconnectTimeoutId.
C6_SingleTimer ==
  /\ Cardinality(timers) <= 1
  /\ \A t \in timers : t.id = reconnectTimeoutId

\* C7: handling the close event of a socket that is not the current one
\* leaves a current socket installed and open.
C7_StaleCloseKeepsHandle ==
  [][(step'.op = "close" /\ ws # 0 /\ step'.sock # ws)
       => (ws' = ws /\ sockets'[ws].phase = sockets[ws].phase)]_vars

\* C8: an error or close event of a socket that is not the current one
\* cancels no pending timer, does not reset reconnecting or reconnectAttempt,
\* and emits no `close` while a session is live.
C8_StaleEventsInert ==
  [][(step'.op \in {"error", "close"} /\ step'.sock # ws)
       => /\ timers \subseteq timers'
          /\ reconnecting => reconnecting'
          /\ reconnectAttempt > 0 => reconnectAttempt' > 0
          /\ (ws # 0 => \A i \in 1..Len(out') : out'[i].ev # "close")]_vars

\* C9: the k-th retry of a sequence is scheduled with reconnectAttempt = k,
\* and with the delay of k attempts.
C9_AttemptCountsRetries ==
  \A t \in timers : t.attempt = t.k /\ t.delay = Min(30000, 1000 * 2^(t.k - 1))

\* C10: every scheduled timer has delay min(30000, 1000 * 2^(attempt-1)) for
\* the incremented counter; attempt 1 gives 1000; the delay is non-decreasing
\* over attempts 1..maxReconnectAttempts and never above 30000.
C10_BackoffDelay ==
  /\ \A t \in timers :
       /\ t.attempt >= 1
       /\ t.delay = Min(30000, 1000 * 2^(t.attempt - 1))
       /\ t.attempt = 1 => t.delay = 1000
       /\ t.delay <= 30000
       /\ (t.id = reconnectTimeoutId /\ reconnecting) => t.attempt = reconnectAttempt
  /\ BackoffDelay(1) = 1000
  /\ \A n \in 1..(maxReconnectAttempts - 1) : BackoffDelay(n) <= BackoffDelay(n + 1)
  /\ \A n \in 1..(maxReconnectAttempts + 1) : BackoffDelay(n) <= 30000
  /\ \A n \in 1..maxReconnectAttempts : BackoffDelay(n) = 1000 * 2^(n - 1)

C10_Witness ==
  \E t \in timers : t.attempt = 1 /\ t.delay = 1000 /\ t.id = reconnectTimeoutId /\ reconnecting

\* C11: the entry of the reconnection controller for attempt number
\* maxReconnectAttempts + 1 schedules no timer (it gives up instead).
C11_GiveUpAtEntry ==
  \A t \in timers : t.k <= maxReconnectAttempts

\* C12: disconnect() returns true exactly when it closed the live current
\* socket; a second successive call returns false; with no current socket it
\* returns false.
C12_DisconnectReturn ==
  [][step'.op = "disconnect"
       => /\ step'.ret <=> (ws # 0 /\ sockets[ws].phase = "open"
                             /\ sockets'[ws].phase = "closing" /\ ws' = 0)
          /\ ws = 0 => ~step'.ret
          /\ step.op = "disconnect" => ~step'.ret
          /\ ws' = 0]_vars

C12_Witness ==
  /\ step.op = "disconnect" /\ ~step.ret
  /\ reconnectTimeoutId = 0
  /\ \E i \in Sock : sockets[i].phase = "closing"

\* C13: after connect(c) followed at once by disconnect(), whatever the
\* transport does, no reconnection timer is ever pending and `close` is
\* emitted at most once.
C13_AbortedConnectClean ==
  Aborted => (timers = {} /\ closeCount <= 1)

\* C14: after disconnect() and a fresh connect(c), the events of sockets
\* created before the disconnect do not affect the new session: they leave
\* ws, reconnecting, reconnectAttempt and the timers alone and emit nothing
\* but logs, as on a newly constructed client (which has no such sockets).
C14_FreshConnectIsolated ==
  [][(fresh # 0 /\ step'.op \in {"open", "error", "close", "then", "catch"}
        /\ step'.sock < fresh)
       => /\ ws' = ws
          /\ reconnecting' = reconnecting
          /\ reconnectAttempt' = reconnectAttempt
          /\ timers' = timers
          /\ \A i \in 1..Len(out') : out'[i].ev = "log"]_vars

\* C15: the close listener of an opened socket hands off to attemptReconnect
\* and emits no `close` when the reason contains "error", a config is stored
\* and reconnecting is false; otherwise it tears down (disconnect of that
\* socket) and emits `close` exactly once, carrying the original event.
CloseEvents(o) == SelectSeq(o, LAMBDA e : e.ev = "close")

C15_CloseHandling ==
  [][step'.op = "close"
       => IF step'.err /\ config # 0 /\ ~reconnecting
          THEN /\ CloseEvents(out') = <<>>
               /\ reconnecting' /\ reconnectAttempt' = reconnectAttempt + 1
               /\ ws' = 0
               /\ \E t \in timers' : /\ t.id = nextTimer /\ t.oldWs = step'.sock
                                     /\ timers' = timers \cup {t}
                                     /\ reconnectTimeoutId' = t.id
          ELSE /\ CloseEvents(out') =
                    <<[ev |-> "close", sock |-> step'.sock,
                       reason |-> IF step'.err THEN "error" ELSE "normal"]>>
               /\ ~reconnecting' /\ reconnectAttempt' = 0
               /\ reconnectTimeoutId' = 0
               /\ timers' = {t \in timers : t.id # reconnectTimeoutId}
               /\ ws' = (IF ws = step'.sock THEN 0 ELSE ws)]_vars

C15_Witness ==
  /\ step.op = "close" /\ step.err
  /\ Len(CloseEvents(out)) = 1

\* C16: on every socket the client opened, the first outbound frame is the
\* setup frame, built from the stored config when the socket opened; no
\* frame is written to a socket that has not opened.
C16_SetupFirst ==
  [][/\ \A i \in 1..Len(sockets') :
          LET q == sockets'[i].sent
          IN /\ sockets'[i].phase \in {"connecting", "failed"} => q = <<>>
             /\ sockets'[i].phase \in {"open", "closing", "closed"}
                  => (Len(q) >= 1 /\ q[1].kind = "setup")
             /\ \A j \in 2..Len(q) : q[j].kind # "setup"
     /\ step'.op = "open"
          => sockets'[step'.sock].sent = <<[kind |-> "setup", config |-> config]>>]_vars

C16_Witness ==
  \E i \in Sock : /\ sockets[i].origin = "reconnect"
                  /\ Len(sockets[i].sent) = 2
                  /\ sockets[i].sent[1].kind = "setup"
                  /\ sockets[i].sent[2].kind # "setup"

\* C17: a send method called with no current socket throws; nothing is
\* written to any socket, no event is emitted, the client is unchanged.
C17_SendNotConnected ==
  [][(step'.op = "send" /\ ws = 0)
       => /\ step'.err
          /\ sockets' = sockets
          /\ out' = <<>>
          /\ UNCHANGED <<ws, config, reconnecting, reconnectAttempt,
                         reconnectTimeoutId, timers, nextTimer, microtasks>>]_vars

C17_Witness ==
  step.op = "send" /\ step.err /\ ws = 0 /\ reconnecting /\ timers # {}

\* C18: a transport error on a socket of a caller's connect, while no
\* reconnection is in progress, rejects the promise and emits a log entry,
\* and nothing is retried: no timer is scheduled, reconnecting stays false,
\* no close event is emitted and the current socket is not replaced.
C18_CallerConnectFails ==
  [][(step'.op = "error" /\ sockets[step'.sock].origin = "caller" /\ ~reconnecting)
       => /\ sockets'[step'.sock].settled = "catch"
          /\ \E i \in 1..Len(out') : out'[i].ev = "log" /\ out'[i].type = "server.error"
          /\ CloseEvents(out') = <<>>
          /\ timers' \subseteq timers
          /\ reconnectTimeoutId' = 0
          /\ ~reconnecting'
          /\ reconnectAttempt' = 0
          /\ microtasks' = <<>>
          /\ ws' = ws]_vars

C18_Witness ==
  /\ step.op = "error"
  /\ sockets[step.sock].origin = "caller"
  /\ sockets[step.sock].settled = "catch"
  /\ Len(sockets) = 1
  /\ ws = 0 /\ timers = {} /\ ~reconnecting

\* a reconnection sequence is waiting for its timer
Reconnecting == reconnecting /\ \E t \in timers : t.id = reconnectTimeoutId

\* C19: while a reconnection sequence is in progress no close event is
\* emitted, and a failed reconnection attempt emits only log and
\* client.reconnect events.
C19_NoCloseWhileReconnecting ==
  [][/\ Reconnecting => CloseEvents(out') = <<>>
     /\ (step'.op \in {"error", "catch"} /\ sockets[step'.sock].origin = "reconnect")
          => \A i \in 1..Len(out') : out'[i].ev \in {"log", "client.reconnect"}]_vars

\* the events of a task other than its log entries
Events(o) == SelectSeq(o, LAMBDA e : e.ev # "log")

\* turncomplete first, content last, only audio events between them
TurnCompleteThenContent(e) ==
  /\ Len(e) >= 2
  /\ e[1].ev = "turncomplete"
  /\ e[Len(e)].ev = "content"
  /\ \A i \in 2..(Len(e) - 1) : e[i].ev = "audio"

\* the last task handled a frame classified as ServerContent that has
\* turnComplete set and a modelTurn with a non-audio part
TurnCompleteWithContent ==
  /\ step.op = "receive"
  /\ ~frame.toolCall /\ ~frame.toolCallCancellation /\ ~frame.setupComplete
  /\ frame.serverContent.present
  /\ frame.serverContent.turnComplete
  /\ frame.serverContent.modelTurn
  /\ otherPartsOf(frame.serverContent.parts) # <<>>

\* C20 as claimed: a ServerContent frame with turnComplete set and a
\* modelTurn with a non-audio part emits turncomplete, then the audio events,
\* then content.
C20_TurnCompleteThenContent ==
  TurnCompleteWithContent => TurnCompleteThenContent(Events(out))

\* C20 amended: the same, for a frame whose serverContent is not interrupted;
\* content carries the non-audio parts in their order.
C20_TurnCompleteThenContentUnlessInterrupted ==
  (TurnCompleteWithContent /\ ~frame.serverContent.interrupted)
    => /\ TurnCompleteThenContent(Events(out))
       /\ Events(out)[Len(Events(out))].parts = otherPartsOf(frame.serverContent.parts)

C20_Witness ==
  /\ TurnCompleteWithContent
  /\ ~frame.serverContent.interrupted
  /\ frame.serverContent.parts = <<"text", "audio">>
  /\ Len(Events(out)) = 3
  /\ Events(out)[2] = [ev |-> "audio", data |-> "audio"]
  /\ Events(out)[3].ev = "content"

AudioEvents(o) == SelectSeq(o, LAMBDA e : e.ev = "audio")

ContentEvents(o) == SelectSeq(o, LAMBDA e : e.ev = "content")

\* the audio events carry exactly these payloads, in this order
AudioEventsAre(o, payloads) ==
  /\ Len(AudioEvents(o)) = Len(payloads)
  /\ \A i \in 1..Len(payloads) : AudioEvents(o)[i].data = payloads[i]

\* one content event with the non-audio parts if there are any, else none
ContentEventIs(o, parts) ==
  ContentEvents(o) = (IF otherPartsOf(parts) = <<>>
                      THEN <<>>
                      ELSE <<[ev |-> "content", parts |-> otherPartsOf(parts)]>>)

\* the last task handled a frame classified as ServerContent
ServerContentHandled ==
  /\ step.op = "receive" /\ ~step.err
  /\ ~frame.toolCall /\ ~frame.toolCallCancellation /\ ~frame.setupComplete
  /\ frame.serverContent.present

\* the last task handled a ModelTurn frame
ModelTurnHandled ==
  /\ ServerContentHandled
  /\ ~frame.serverContent.interrupted
  /\ frame.serverContent.modelTurn

\* C21 as claimed: a ModelTurn frame emits one audio event per audio part, in
\* order, and one content event with exactly the non-audio parts, in order,
\* if there is any, else no content event.
C21_AudioContentPartition ==
  ModelTurnHandled
    => /\ AudioEventsAre(out, audioPartsOf(frame.serverContent.parts))
       /\ ContentEventIs(out, frame.serverContent.parts)

\* C21 amended: one audio event per audio part whose data is not empty, in
\* order; the content event as claimed.
C21_AudioContentPartitionNonEmpty ==
  ModelTurnHandled
    => /\ AudioEventsAre(out, SelectSeq(frame.serverContent.parts,
                                        LAMBDA p : p \in {"audio", "audio2"}))
       /\ ContentEventIs(out, frame.serverContent.parts)

C21_Witness ==
  /\ ModelTurnHandled
  /\ frame.serverContent.parts = <<"audio2", "text">>
  /\ Len(AudioEvents(out)) = 1
  /\ Len(ContentEvents(out)) = 1

\* C22: a decoded frame is classified by the first matching shape in the
\* order ToolCall, ToolCallCancellation, SetupComplete, ServerContent, and
\* only that kind's events are emitted; a frame of no known shape emits none.
C22_FirstMatchingShape ==
  (step.op = "receive" /\ ~step.err)
    => LET e == Events(out)
       IN IF frame.toolCall
          THEN Len(e) = 1 /\ e[1].ev = "toolcall"
          ELSE IF frame.toolCallCancellation
          THEN Len(e) = 1 /\ e[1].ev = "toolcallcancellation"
          ELSE IF frame.setupComplete
          THEN Len(e) = 1 /\ e[1].ev = "setupcomplete"
          ELSE IF frame.serverContent.present
          THEN \A i \in 1..Len(e) :
                 e[i].ev \in {"interrupted", "turncomplete", "audio", "content"}
          ELSE e = <<>>

C22_Witness ==
  /\ step.op = "receive" /\ ~step.err
  /\ frame.toolCall /\ frame.setupComplete
  /\ frame.serverContent.modelTurn
  /\ frame.serverContent.parts = <<"text">>
  /\ Len(Events(out)) = 1
  /\ Events(out)[1].ev = "toolcall"

\* C23: a ServerContent frame that is interrupted emits the interrupted
\* event and nothing else, whatever else the frame carries.
C23_InterruptedOnly ==
  (ServerContentHandled /\ frame.serverContent.interrupted)
    => (Len(Events(out)) = 1 /\ Events(out)[1].ev = "interrupted")

C23_Witness ==
  /\ ServerContentHandled
  /\ frame.serverContent.interrupted
  /\ frame.serverContent.turnComplete
  /\ frame.serverContent.parts = <<"audio", "text">>
  /\ Len(Events(out)) = 1

\* C24: frames are handled in the order they arrived: the frame receive
\* handles is the oldest of the payloads being decoded.
C24_ArrivalOrder ==
  [][(step'.op = "receive" /\ decoding # <<>>) => decoding' = Tail(decoding)]_vars

\* the last task handled a payload that did not decode or a frame of no
\* known shape
NoShapeHandled ==
  /\ step.op = "receive"
  /\ ~frame.toolCall /\ ~frame.toolCallCancellation /\ ~frame.setupComplete
  /\ ~frame.serverContent.present

\* C25: a payload that cannot be decoded, or a frame of no known shape, is
\* dropped with a log entry, without a protocol event and without a failure
\* of the handler.
C25_UndecodableIsolated ==
  NoShapeHandled
    => /\ \E i \in 1..Len(out) : out[i].ev = "log"
       /\ Events(out) = <<>>
       /\ ~step.err

\* the text after the first prelude of r and the blank that follows it
TextAfterPrelude(r) ==
  LET rest == slice(r, indexOf(r, prelude) + Len(prelude))
  IN IF rest # <<>> /\ Head(rest) = " " THEN Tail(rest) ELSE rest

\* C26: the reason logged for a closure is the text after the prelude when
\* the reason contains the prelude, at whatever position, and the reason
\* itself when it does not.
C26_ReasonExtraction ==
  step.op = "close"
    => reason.logged = (IF includes(reason.given, prelude)
                        THEN TextAfterPrelude(reason.given)
                        ELSE reason.given)

\* C27: every socket the client opened, other than the current one, has been
\* closed by the client or by the transport.
C27_SupersededClosed ==
  \A i \in Sock : sockets[i].phase = "open" => i = ws

\* C28: only a caller's connect changes the stored config, to its argument;
\* the setup frame of every socket opened by a reconnection carries the
\* config of the caller's last connect.
C28_ConfigStable ==
  [][/\ config' = requested'
     /\ step'.op # "connect" => config' = config
     /\ (step'.op = "open" /\ sockets[step'.sock].origin = "reconnect")
          => sockets'[step'.sock].sent = <<[kind |-> "setup", config |-> requested]>>]_vars

C28_Witness ==
  /\ step.op = "open"
  /\ sockets[step.sock].origin = "reconnect"
  /\ sockets[step.sock].sent = <<[kind |-> "setup", config |-> requested]>>
  /\ \E i \in Sock : sockets[i].origin = "caller" /\ sockets[i].setup # requested

SetupCompleteEvents(o) == SelectSeq(o, LAMBDA e : e.ev = "setupcomplete")

\* C29: the promise of connect is resolved by the open listener, once the
\* setup frame is sent and without a setupcomplete event; setupcomplete is
\* emitted only by receive, for a frame that carries setupComplete.
C29_ResolvesBeforeSetupComplete ==
  /\ step.op = "open"
       => /\ sockets[step.sock].settled = "then"
          /\ sockets[step.sock].sent = <<[kind |-> "setup", config |-> config]>>
          /\ SetupCompleteEvents(out) = <<>>
  /\ SetupCompleteEvents(out) # <<>>
       => (step.op = "receive" /\ frame.setupComplete)

C29_Witness ==
  /\ step.op = "open"
  /\ sockets[step.sock].settled = "then"
  /\ frame = NoFrame

SuccessLogs(o, name) ==
  SelectSeq(o, LAMBDA e : e.ev = name /\ e.message = "Reconnection successful")

\* C31: the success of a reconnection's connection attempt is reported by
\* one "Reconnection successful" entry, as `log` and as `client.reconnect`,
\* once for the sequence (the sequence is in progress before the report and
\* over after it, and no other step reports it), after the setup frame was
\* sent on the new socket; afterwards reconnecting is false, reconnectAttempt
\* is 0 and the new socket is the current one.
C31_ReconnectSuccess ==
  [][/\ step'.op = "then"
          => /\ reconnecting
             /\ Len(SuccessLogs(out', "log")) = 1
             /\ Len(SuccessLogs(out', "client.reconnect")) = 1
             /\ sockets[step'.sock].origin = "reconnect"
             /\ sockets[step'.sock].sent = <<[kind |-> "setup", config |-> config]>>
             /\ ~reconnecting'
             /\ reconnectAttempt' = 0
             /\ ws' = step'.sock
             /\ sockets'[ws'].phase = "open"
     /\ step'.op # "then"
          => /\ SuccessLogs(out', "log") = <<>>
             /\ SuccessLogs(out', "client.reconnect") = <<>>]_vars

C31_Witness ==
  /\ step.op = "then"
  /\ retryNo >= 2
  /\ ws = step.sock
  /\ Len(SuccessLogs(out, "log")) = 1

\* C32: while the hook's `connected` flag is true the client has a current
\* socket, so that a realtime send gated on `connected` finds one.
C32_ConnectedHasSocket ==
  hook.connected => ws # 0

\* C33: the hook's `reconnecting` flag is true only while the client is in
\* a reconnection sequence (its flag is set, a reconnection timer is pending
\* or a reconnection's socket is connecting or about to report), and true
\* whenever a reconnection timer is pending.
C33_ReconnectingTracksSequence ==
  /\ hook.reconnecting
       => \/ reconnecting
          \/ timers # {}
          \/ microtasks # <<>>
          \/ \E i \in Sock : /\ sockets[i].origin = "reconnect"
                             /\ sockets[i].phase = "connecting"
  /\ timers # {} => hook.reconnecting

\* the entries of o, as `log`, that announce the end of a sequence without
\* a connection
GiveUpLogs(o) ==
  SelectSeq(o, LAMBDA e : e.ev = "log" /\ e.message = "Failed to reconnect")

C38_ReconnectingIffAttempt ==
  reconnecting <=> reconnectAttempt >= 1

C38_Witness ==
  /\ step.op = "then"
  /\ ~reconnecting
  /\ reconnectAttempt = 0
  /\ \E i \in Sock : sockets[i].origin = "reconnect" /\ sockets[i].phase = "failed"

\* C35: the retry timers make at most maxRetries connect calls without a
\* transcriber.connect() that resolved in between.
C35_BoundedAssemblyRetries ==
  assembly.attempts <= maxRetries

\* C36: once disconnect() has completed, and until the caller calls connect
\* or a connect call of the caller goes on, the status is DISCONNECTED and
\* the session id null.
C36_DisconnectIsFinal ==
  assembly.disconnected
    => assembly.status = "disconnected" /\ assembly.sessionId = 0

\* C37: the status RECONNECTING is always followed by another status.
C37_ReconnectingEnds ==
  (assembly.status = "reconnecting") ~> (assembly.status # "reconnecting")
====
